---- MODULE Spec2Model ----
(***************************************************************************)
(* Model of src/core.py: the Camera facade over the digiCamControl relay   *)
(* (CameraControlRemoteCmd.exe).                                           *)
(*                                                                         *)
(* A relay text is a sequence of tokens.  The markers the parser searches  *)
(* for ("error", "message:", "response:") and the characters it strips or  *)
(* splits on (quote, semicolon, CR, LF, brackets, comma, space) are tokens *)
(* of their own; every other token is an opaque piece of a value.          *)
(* A command is the sequence of its space-separated words.                 *)
(***************************************************************************)
EXTENDS Integers, Sequences, FiniteSets, TLC

\* ------------------------------------------------------------------ bounds
\* Longest bracketed list the relay answers a list command with.
MaxElems == 3
\* Deepest nesting of `with camera.liveView():` blocks.
MaxDepth == 1

\* ------------------------------------------------------- python str methods
\* `tok in text`
Contains(text, tok) == \E i \in 1..Len(text) : text[i] = tok

\* index of the first occurrence of tok in text, 0 when there is none
Find(text, tok) ==
    IF Contains(text, tok)
    THEN CHOOSE i \in 1..Len(text) :
            /\ text[i] = tok
            /\ \A j \in 1..(i - 1) : text[j] # tok
    ELSE 0

\* text.split(tok): the segments between the occurrences of tok
RECURSIVE Split(_, _)
Split(text, tok) ==
    LET i == Find(text, tok)
    IN  IF i = 0
        THEN << text >>
        ELSE << SubSeq(text, 1, i - 1) >> \o Split(SubSeq(text, i + 1, Len(text)), tok)

RECURSIVE LStrip(_, _)
LStrip(text, chars) ==
    IF text # << >> /\ Head(text) \in chars THEN LStrip(Tail(text), chars) ELSE text

RECURSIVE RStrip(_, _)
RStrip(text, chars) ==
    IF text # << >> /\ text[Len(text)] \in chars
    THEN RStrip(SubSeq(text, 1, Len(text) - 1), chars)
    ELSE text

\* text.strip(chars)
Strip(text, chars) == RStrip(LStrip(text, chars), chars)

\* text.replace(old, new) for single tokens; new = << >> removes old
Replace(text, old, new) ==
    LET R[i \in 0..Len(text)] ==
            IF i = 0 THEN << >>
            ELSE R[i - 1] \o (IF text[i] = old THEN new ELSE << text[i] >>)
    IN  R[Len(text)]

\* ------------------------------------------------------------------ tokens
Quote == "\""
Semi == ";"
CR == "\r"
LF == "\n"
LBracket == "["
RBracket == "]"
Comma == ","
Space == " "
Underscore == "_"
ErrorToken == "error"
MessageMarker == "message:"
ResponseMarker == "response:"

\* the characters of strip('";\r\n'), strip('\r\n') and strip('[];\r\n')
ValueStripChars == {Quote, Semi, CR, LF}
MessageStripChars == {CR, LF}
ListStripChars == {LBracket, RBracket, Semi, CR, LF}

\* ---------------------------------------------------------- TransferMode
\* class TransferMode(Enum): the three values, as texts
TransferModeValues ==
    [PC     |-> << "Save", Underscore, "to", Underscore, "PC", Underscore, "only" >>,
     CAMERA |-> << "Save", Underscore, "to", Underscore, "camera", Underscore, "only" >>,
     BOTH   |-> << "Save", Underscore, "to", Underscore, "PC", Underscore, "and",
                   Underscore, "camera" >>]

TransferModeNames == {"PC", "CAMERA", "BOTH"}

\* ------------------------------------------------------- results and logs
\* What a call hands back: None, a str, a list of str, a bool or a TransferMode.
NoneResult == [tag |-> "None", val |-> << >>]

StrResult(text) == [tag |-> "str", val |-> text]

ListResult(texts) == [tag |-> "list", val |-> texts]

BoolResult(b) == [tag |-> "bool", val |-> b]

EnumResult(name) == [tag |-> "TransferMode", val |-> name]

\* One logging.error record: the call site that wrote it and the text it carries.
LogError(site, text) == [site |-> site, msg |-> text]

\* The outcome of one call on the Camera: the commands it handed to the relay
\* (in order), what it returned, the exception that left it ("none" when it
\* returned) and the logging.error records it wrote.
Outcome(issued, result, raised, logged) ==
    [issued |-> issued, result |-> result, raised |-> raised, logged |-> logged]

\* ---------------------------------------------------------- relay process
\* What subprocess.check_output can do with one command: the relay exits 0 and
\* its stdout is `text`; the relay exits non-zero (CalledProcessError); or the
\* relay executable cannot be spawned (OSError, e.g. FileNotFoundError).
RelayOk(text) == [kind |-> "ok", text |-> text]

RelayExit == [kind |-> "exit", text |-> << >>]

RelaySpawn == [kind |-> "spawn", text |-> << >>]

\* Camera._execute: only CalledProcessError is caught (logged, "" returned);
\* any other exception of check_output leaves _execute.
Execute(command, o) ==
    [text   |-> IF o.kind = "ok" THEN o.text ELSE << >>,
     raised |-> IF o.kind = "spawn" THEN "OSError" ELSE "none",
     logged |-> IF o.kind = "exit" THEN << LogError("execute", command) >> ELSE << >>]

\* ------------------------------------------------------------ the parsers
\* `if 'error' in response:` branch shared by _get, _set, _list, LastCaptured
\* and capture: response.split('message:')[1].strip('\r\n') is logged and
\* `onError` returned; [1] raises IndexError when there is no 'message:'.
ErrorBranch(site, response, onError) ==
    LET parts == Split(response, MessageMarker)
    IN  IF Len(parts) < 2
        THEN [result |-> NoneResult, raised |-> "IndexError", logged |-> << >>]
        ELSE [result |-> onError, raised |-> "none",
              logged |-> << LogError(site, Strip(parts[2], MessageStripChars)) >>]

\* response.split('response:')[1].strip('";\r\n') of _get, _set and LastCaptured
ParseValue(site, response) ==
    IF Contains(response, ErrorToken)
    THEN ErrorBranch(site, response, NoneResult)
    ELSE LET parts == Split(response, ResponseMarker)
         IN  IF Len(parts) < 2
             THEN [result |-> NoneResult, raised |-> "IndexError", logged |-> << >>]
             ELSE [result |-> StrResult(Strip(parts[2], ValueStripChars)),
                   raised |-> "none", logged |-> << >>]

\* response.split('response:')[1].strip('[];\r\n').replace('"','').split(',')
ParseList(site, response) ==
    IF Contains(response, ErrorToken)
    THEN ErrorBranch(site, response, ListResult(<< >>))
    ELSE LET parts == Split(response, ResponseMarker)
         IN  IF Len(parts) < 2
             THEN [result |-> NoneResult, raised |-> "IndexError", logged |-> << >>]
             ELSE [result |-> ListResult(Split(Replace(Strip(parts[2], ListStripChars),
                                                        Quote, << >>), Comma)),
                   raised |-> "none", logged |-> << >>]

\* One command sent and its answer parsed, as a list or as a value; an
\* exception of _execute leaves the caller before any parsing.
Call(command, o, site, asList) ==
    LET e == Execute(command, o)
    IN  IF e.raised # "none"
        THEN Outcome(<< command >>, NoneResult, e.raised, e.logged)
        ELSE LET p == IF asList THEN ParseList(site, e.text) ELSE ParseValue(site, e.text)
             IN  Outcome(<< command >>, p.result, p.raised, e.logged \o p.logged)

\* Camera._get: f"get {param}"
Get(param, o) == Call(<< "get", Space, param >>, o, "get", FALSE)

\* Camera._set: f"set {param} {value}"
Set(param, value, o) ==
    Call(<< "set", Space, param, Space >> \o value, o, "set", FALSE)

\* Camera._list: f"list {param}"
List(param, o) == Call(<< "list", Space, param >>, o, "list", TRUE)

\* Camera.LastCaptured
LastCaptured(o) ==
    Call(<< "get", Space, "lastcaptured" >>, o, "get lastcaptured", FALSE)

\* TransferMode(text): the member whose value is text, ValueError when none is
TransferModeOf(text) ==
    IF \E n \in TransferModeNames : TransferModeValues[n] = text
    THEN [result |-> EnumResult(CHOOSE n \in TransferModeNames : TransferModeValues[n] = text),
          raised |-> "none"]
    ELSE [result |-> NoneResult, raised |-> "ValueError"]

\* Camera.Transfer (getter): TransferMode(self._get("transfer").replace(' ', '_'));
\* None has no replace, so a None from _get raises AttributeError.
TransferGet(o) ==
    LET g == Get("transfer", o)
    IN  IF g.raised # "none" THEN g
        ELSE IF g.result.tag = "None"
        THEN Outcome(g.issued, NoneResult, "AttributeError", g.logged)
        ELSE LET t == TransferModeOf(Replace(g.result.val, Space, << Underscore >>))
             IN  Outcome(g.issued, t.result, t.raised, g.logged)

\* Camera.Transfer (setter): self._set("transfer", mode.value); returns None
TransferSet(mode, o) ==
    LET s == Set("transfer", TransferModeValues[mode], o)
    IN  Outcome(s.issued, NoneResult, s.raised, s.logged)

\* ------------------------------------------------------- action commands
\* A `do` command: the answer is discarded.
Do(command, o) ==
    LET e == Execute(command, o)
    IN  Outcome(<< command >>, NoneResult, e.raised, e.logged)

\* b after a: an exception of a leaves the caller before b starts
Then(a, b) ==
    IF a.raised # "none"
    THEN a
    ELSE Outcome(a.issued \o b.issued, b.result, b.raised, a.logged \o b.logged)

ShowCommand == << "do", Space, "LiveViewWnd_Show" >>

HideCommand == << "do", Space, "LiveViewWnd_Hide" >>

MinimizeCommand == << "do", Space, "All_Minimize" >>

CloseCommand == << "do", Space, "All_Close" >>

FocusCommand == << "do", Space, "LiveView_Focus" >>

\* Camera.minimizeAll
MinimizeAll(o) == Do(MinimizeCommand, o)

\* Camera.closeAll
CloseAll(o) == Do(CloseCommand, o)

\* Camera.startLiveView, after it has set inLiveViewMode: the show command,
\* then minimizeAll()
StartLiveView(o1, o2) == Then(Do(ShowCommand, o1), MinimizeAll(o2))

\* Camera.stopLiveView, after it has cleared inLiveViewMode
StopLiveView(o) == Do(HideCommand, o)

FocusUnguarded(live, o) == Do(FocusCommand, o)

\* Camera.focus
Focus(live, o) ==
    IF live
    THEN Do(FocusCommand, o)
    ELSE Outcome(<< >>, NoneResult, "none",
                 << LogError("focus", << "Camera is not in live view mode" >>) >>)

CaptureCommandAfIgnored(live, autoFocus, location) ==
    LET command == IF live THEN << "do", Space, "LiveView_Capture" >> ELSE << "Capture" >>
    IN  IF location.given /\ location.text # << >>
        THEN command \o << Space >> \o location.text
        ELSE command

\* Camera.capture, lines 344-347: the command.  A location is
\* [given |-> BOOLEAN, text |-> its text]; `if location:` is false for None
\* and for the empty string.
CaptureCommand(live, autoFocus, location) ==
    LET capturecmd == IF autoFocus THEN << "Capture" >> ELSE << "CaptureNoAf" >>
        command == IF live THEN << "do", Space, "LiveView_Capture" >> ELSE capturecmd
    IN  IF location.given /\ location.text # << >>
        THEN command \o << Space >> \o location.text
        ELSE command

CaptureAlwaysQueries(live, autoFocus, location, o1, o2) ==
    LET command == CaptureCommand(live, autoFocus, location)
        e == Execute(command, o1)
    IN  IF e.raised # "none"
        THEN Outcome(<< command >>, NoneResult, e.raised, e.logged)
        ELSE Then(Outcome(<< command >>, NoneResult, "none", e.logged), LastCaptured(o2))

\* Camera.capture
Capture(live, autoFocus, location, o1, o2) ==
    LET command == CaptureCommand(live, autoFocus, location)
        e == Execute(command, o1)
    IN  IF e.raised # "none"
        THEN Outcome(<< command >>, NoneResult, e.raised, e.logged)
        ELSE IF Contains(e.text, ErrorToken)
        THEN LET p == ErrorBranch("capture", e.text, NoneResult)
             IN  Outcome(<< command >>, p.result, p.raised, e.logged \o p.logged)
        ELSE Then(Outcome(<< command >>, NoneResult, "none", e.logged), LastCaptured(o2))

\* Camera.startRecording, line 363
StartRecordingCommand(live) ==
    IF live THEN << "do", Space, "LiveViewWnd_StartRecord" >>
            ELSE << "do", Space, "StartRecord" >>

StopRecordingCommandBare(live) ==
    IF live THEN << "LiveViewWnd_StopRecord" >> ELSE << "StopRecord" >>

\* Camera.stopRecording, line 385
StopRecordingCommand(live) ==
    IF live THEN << "do", Space, "LiveViewWnd_StopRecord" >>
            ELSE << "do", Space, "StopRecord" >>

\* Camera.startRecording: no 'error' test; response.split('response:')[1] is
\* stripped and compared with ""
StartRecording(live, o) ==
    LET command == StartRecordingCommand(live)
        e == Execute(command, o)
        parts == Split(e.text, ResponseMarker)
    IN  IF e.raised # "none"
        THEN Outcome(<< command >>, NoneResult, e.raised, e.logged)
        ELSE IF Len(parts) < 2
        THEN Outcome(<< command >>, NoneResult, "IndexError", e.logged)
        ELSE LET response_text == Strip(parts[2], ValueStripChars)
             IN  IF response_text = << >>
                 THEN Outcome(<< command >>, BoolResult(TRUE), "none", e.logged)
                 ELSE Outcome(<< command >>, BoolResult(FALSE), "none",
                              e.logged \o << LogError("startRecording", response_text) >>)

\* Camera.stopRecording
StopRecording(live, o) == Do(StopRecordingCommand(live), o)

\* Camera.singleLineCommand
valid_commands == {"get", "set", "list", "capture", "do"}

SingleLineCommand(command_type, o) ==
    IF command_type \notin valid_commands
    THEN Outcome(<< >>, NoneResult, "none",
                 << LogError("singleLineCommand", << command_type >>) >>)
    ELSE LET e == Execute(<< command_type >>, o)
         IN  Outcome(<< << command_type >> >>,
                     IF e.raised = "none" THEN StrResult(e.text) ELSE NoneResult,
                     e.raised, e.logged)

StopsOnlyAfterSuccess(bodyFailed) == ~bodyFailed

\* the `finally:` of Camera.liveView: stopLiveView() runs however the body ended
FinallyStops(bodyFailed) == TRUE

\* ------------------------------------------------------------------ inputs
\* Protocol names of the typed accessors (the properties of lines 78-234 are
\* _get / _set / _list with one of these names baked in).
GetParams == {"shutterspeed", "session.folder"}

SetParams == {"iso", "session.deletefileaftertransfer"}

ListParams == {"shutterspeed", "iso"}

\* str(value) of the values handed to the setters
SetValues == { << "400" >>, << "True" >> }

\* command_type arguments of singleLineCommand
CommandTypes == valid_commands \cup {"capturenoaf"}

\* location arguments of capture
NoLocation == [given |-> FALSE, text |-> << >>]

Locations ==
    { NoLocation,
      [given |-> TRUE, text |-> << >>],
      [given |-> TRUE, text |-> << "C:\\pics", Space, "img.jpg" >>] }

EventNames == {"captured"}

Callbacks == {"callback"}

\* Relay texts, after the response grammar of the external application.
Catalogue == << "100", "200", "400", "800", "1600" >>

\* n catalogue elements, in catalogue order or reversed
Elems(n, reversed) ==
    [i \in 1..n |-> Catalogue[(((IF reversed THEN n + 1 - i ELSE i) - 1) % Len(Catalogue)) + 1]]

\* "e1","e2",...
RECURSIVE JoinQuoted(_)
JoinQuoted(elems) ==
    IF elems = << >> THEN << >>
    ELSE << Quote, Head(elems), Quote >>
         \o (IF Len(elems) > 1 THEN << Comma >> ELSE << >>)
         \o JoinQuoted(Tail(elems))

\* response:["e1","e2"];\r\n
ListText(elems) ==
    << ResponseMarker, LBracket >> \o JoinQuoted(elems) \o << RBracket, Semi, CR, LF >>

\* response:"value";\r\n
ValueText(value) == << ResponseMarker, Quote >> \o value \o << Quote, Semi, CR, LF >>

\* response:;\r\n  (an empty body)
EmptyBodyText == << ResponseMarker, Semi, CR, LF >>

\* error;message:reason\r\n
ErrorText(reason) == << ErrorToken, Semi, MessageMarker >> \o reason \o << CR, LF >>

NoSuchProperty == << "No", Space, "such", Space, "property" >>

ListTexts ==
    { ListText(Elems(n, FALSE)) : n \in 0..MaxElems } \cup { ListText(Elems(MaxElems, TRUE)) }

\* answers to a command that asks for one value: nothing at all, an empty body,
\* values, a value that holds the word error, and an error
ValueTexts ==
    { << >>,
      EmptyBodyText,
      ValueText(<< "1/125" >>),
      ValueText(<< "Save", Space, "to", Space, "PC", Space, "and", Space, "camera" >>),
      ValueText(<< ErrorToken >>),
      ErrorText(NoSuchProperty) }

Failures == { RelayExit, RelaySpawn }

\* what the relay can do with a get, set, capture or record command
RelayOutcomes == { RelayOk(t) : t \in ValueTexts } \cup Failures

\* what the relay can do with a list command
ListOutcomes ==
    { RelayOk(t) : t \in ListTexts \cup { << >>, ErrorText(NoSuchProperty) } } \cup Failures

\* what the relay can do with a command whose answer is discarded
DoOutcomes == { RelayOk(EmptyBodyText), RelayOk(ErrorText(NoSuchProperty)) } \cup Failures

\* ------------------------------------------------------------------- state
VARIABLES
    inLiveViewMode,   \* self.inLiveViewMode
    AutoFocus,        \* self.AutoFocus
    callbacks,        \* self.callbacks
    depth,            \* open `with camera.liveView():` blocks
    op,               \* the last call made on the camera
    arg,              \* its arguments
    preLive,          \* inLiveViewMode when it was made
    relay,            \* what the relay did with each command it issued
    out,              \* its Outcome
    lastToggle,       \* the last of startLiveView / stopLiveView that ran
    shown             \* the show command has been handed to the relay

vars ==
    << inLiveViewMode, AutoFocus, callbacks, depth, op, arg, preLive, relay, out,
       lastToggle, shown >>

NoOutcome == Outcome(<< >>, NoneResult, "none", << >>)

\* Camera.__init__ returned: inLiveViewMode False, AutoFocus as given, no callbacks
Init ==
    /\ inLiveViewMode = FALSE
    /\ AutoFocus \in BOOLEAN
    /\ callbacks = [e \in {} |-> "callback"]
    /\ depth = 0
    /\ op = "__init__"
    /\ arg = << >>
    /\ preLive = FALSE
    /\ relay = << >>
    /\ out = NoOutcome
    /\ lastToggle = "none"
    /\ shown = FALSE

\* The call `name` with arguments `a`, given `os` by the relay, ends as `res`.
Record(name, a, os, res) ==
    /\ op' = name
    /\ arg' = a
    /\ preLive' = inLiveViewMode
    /\ relay' = SubSeq(os, 1, Len(res.issued))
    /\ out' = res
    /\ shown' = (shown \/ \E i \in 1..Len(res.issued) : res.issued[i] = ShowCommand)

\* what a call that assigns no field leaves alone
fields == << inLiveViewMode, AutoFocus, callbacks, depth, lastToggle >>

On ==
    \E e \in EventNames, c \in Callbacks :
        /\ callbacks' = [x \in (DOMAIN callbacks) \cup {e} |-> IF x = e THEN c ELSE callbacks[x]]
        /\ Record("on", << e, c >>, << >>, NoOutcome)
        /\ UNCHANGED << inLiveViewMode, AutoFocus, depth, lastToggle >>

GetAccessor ==
    \E p \in GetParams, o \in RelayOutcomes :
        /\ Record("get", << p >>, << o >>, Get(p, o))
        /\ UNCHANGED fields

SetAccessor ==
    \E p \in SetParams, v \in SetValues, o \in RelayOutcomes :
        /\ Record("set", << p, v >>, << o >>, Set(p, v, o))
        /\ UNCHANGED fields

ListAccessor ==
    \E p \in ListParams, o \in ListOutcomes :
        /\ Record("list", << p >>, << o >>, List(p, o))
        /\ UNCHANGED fields

TransferGetter ==
    \E o \in RelayOutcomes :
        /\ Record("Transfer", << >>, << o >>, TransferGet(o))
        /\ UNCHANGED fields

TransferSetter ==
    \E m \in TransferModeNames, o \in RelayOutcomes :
        /\ Record("Transfer=", << m >>, << o >>, TransferSet(m, o))
        /\ UNCHANGED fields

LastCapturedGetter ==
    \E o \in RelayOutcomes :
        /\ Record("LastCaptured", << >>, << o >>, LastCaptured(o))
        /\ UNCHANGED fields

SingleLine ==
    \E c \in CommandTypes, o \in DoOutcomes :
        /\ Record("singleLineCommand", << c >>, << o >>, SingleLineCommand(c, o))
        /\ UNCHANGED fields

StartLiveViewCall ==
    \E o1 \in DoOutcomes, o2 \in DoOutcomes :
        /\ inLiveViewMode' = TRUE
        /\ lastToggle' = "start"
        /\ Record("startLiveView", << >>, << o1, o2 >>, StartLiveView(o1, o2))
        /\ UNCHANGED << AutoFocus, callbacks, depth >>

StopLiveViewCall ==
    \E o \in DoOutcomes :
        /\ inLiveViewMode' = FALSE
        /\ lastToggle' = "stop"
        /\ Record("stopLiveView", << >>, << o >>, StopLiveView(o))
        /\ UNCHANGED << AutoFocus, callbacks, depth >>

FocusCall ==
    \E o \in DoOutcomes :
        /\ Record("focus", << >>, << o >>, Focus(inLiveViewMode, o))
        /\ UNCHANGED fields

CaptureCall ==
    \E l \in Locations, o1 \in RelayOutcomes, o2 \in RelayOutcomes :
        /\ Record("capture", l, << o1, o2 >>, Capture(inLiveViewMode, AutoFocus, l, o1, o2))
        /\ UNCHANGED fields

StartRecordingCall ==
    \E o \in RelayOutcomes :
        /\ Record("startRecording", << >>, << o >>, StartRecording(inLiveViewMode, o))
        /\ UNCHANGED fields

StopRecordingCall ==
    \E o \in DoOutcomes :
        /\ Record("stopRecording", << >>, << o >>, StopRecording(inLiveViewMode, o))
        /\ UNCHANGED fields

MinimizeAllCall ==
    \E o \in DoOutcomes :
        /\ Record("minimizeAll", << >>, << o >>, MinimizeAll(o))
        /\ UNCHANGED fields

CloseAllCall ==
    \E o \in DoOutcomes :
        /\ Record("closeAll", << >>, << o >>, CloseAll(o))
        /\ UNCHANGED fields

\* `with camera.liveView():` is entered: startLiveView() runs before the try,
\* so an exception of it leaves the statement with the block never opened.
LiveViewEnter ==
    \E o1 \in DoOutcomes, o2 \in DoOutcomes :
        LET res == StartLiveView(o1, o2)
        IN  /\ depth < MaxDepth
            /\ inLiveViewMode' = TRUE
            /\ lastToggle' = "start"
            /\ depth' = IF res.raised = "none" THEN depth + 1 ELSE depth
            /\ Record("liveView.enter", << >>, << o1, o2 >>, res)
            /\ UNCHANGED << AutoFocus, callbacks >>

\* The block is left, its body having failed or not: the finally clause runs
\* stopLiveView(); an exception of the body is re-raised after it unless
\* stopLiveView raised itself.
LiveViewExit ==
    \E bodyFailed \in BOOLEAN, o \in DoOutcomes :
        LET stop == StopLiveView(o)
            pending == IF bodyFailed THEN "BodyError" ELSE "none"
            res == IF FinallyStops(bodyFailed)
                   THEN Outcome(stop.issued, NoneResult,
                                IF stop.raised # "none" THEN stop.raised ELSE pending,
                                stop.logged)
                   ELSE Outcome(<< >>, NoneResult, pending, << >>)
        IN  /\ depth > 0
            /\ depth' = depth - 1
            /\ inLiveViewMode' = IF FinallyStops(bodyFailed) THEN FALSE ELSE inLiveViewMode
            /\ lastToggle' = IF FinallyStops(bodyFailed) THEN "stop" ELSE lastToggle
            /\ Record("liveView.exit", << bodyFailed >>, << o >>, res)
            /\ UNCHANGED << AutoFocus, callbacks >>

Next ==
    \/ On
    \/ CaptureCall
    \/ TransferGetter
    \/ GetAccessor
    \/ SetAccessor
    \/ ListAccessor
    \/ TransferSetter
    \/ LastCapturedGetter
    \/ SingleLine
    \/ StartLiveViewCall
    \/ StopLiveViewCall
    \/ FocusCall
    \/ StartRecordingCall
    \/ StopRecordingCall
    \/ MinimizeAllCall
    \/ CloseAllCall
    \/ LiveViewEnter
    \/ LiveViewExit

Spec == Init /\ [][Next]_vars

\* ------------------------------------------------------------ properties
ProtocolVerbs == {"get", "set", "list", "do"}

\* C1: focus() outside live view hands nothing to the relay, logs one error,
\* raises nothing and leaves inLiveViewMode false; in live view it hands the
\* relay exactly one command, the live-view focus command.
C1_FocusPrecondition ==
    op = "focus" =>
        /\ ~preLive =>
            /\ out.issued = << >>
            /\ relay = << >>
            /\ Len(out.logged) = 1
            /\ out.logged[1].site = "focus"
            /\ out.raised = "none"
            /\ ~inLiveViewMode
        /\ preLive => out.issued = << FocusCommand >>

C1_Witness == op = "focus" /\ ~preLive /\ out.issued = << >> /\ out.logged # << >>

\* C2: the first command of capture() is the live-view capture command in live
\* view whatever AutoFocus is, else the autofocus capture command when AutoFocus
\* is set and the no-autofocus one when it is not; a non-empty location follows
\* it verbatim after one space, and nothing follows it otherwise.
C2_CaptureVerbSelection ==
    op = "capture" =>
        LET verb == IF preLive THEN << "do", Space, "LiveView_Capture" >>
                    ELSE IF AutoFocus THEN << "Capture" >>
                    ELSE << "CaptureNoAf" >>
            first == out.issued[1]
        IN  /\ Len(out.issued) >= 1
            /\ SubSeq(first, 1, Len(verb)) = verb
            /\ IF arg.given /\ arg.text # << >>
               THEN SubSeq(first, Len(verb) + 1, Len(first)) = << Space >> \o arg.text
               ELSE Len(first) = Len(verb)

C2_Witness ==
    /\ op = "capture"
    /\ ~preLive
    /\ ~AutoFocus
    /\ arg.given
    /\ arg.text # << >>
    /\ Head(out.issued[1]) = "CaptureNoAf"

\* C3: entering a liveView block sets inLiveViewMode and issues the show
\* command first, and whenever it is left, its body having failed or not,
\* the hide command is issued (after that show command) and inLiveViewMode is
\* false.
C3_LiveViewBracket ==
    /\ op = "liveView.enter" =>
            inLiveViewMode /\ out.issued # << >> /\ out.issued[1] = ShowCommand
    /\ depth > 0 => shown
    /\ op = "liveView.exit" =>
            /\ shown
            /\ out.issued = << HideCommand >>
            /\ ~inLiveViewMode
            /\ lastToggle = "stop"

C3_Witness ==
    /\ op = "liveView.exit"
    /\ arg[1] = TRUE
    /\ out.issued = << HideCommand >>
    /\ ~inLiveViewMode

\* C9: capture() issues the capture command first; when the answer holds no
\* error marker it issues exactly one more command, the last-captured query,
\* and hands back what that query yields; when the answer is an error it issues
\* nothing more, returns None and logs the message.
C9_CaptureThenQuery ==
    (op = "capture" /\ relay[1].kind = "ok") =>
        LET r1 == relay[1].text
        IN  /\ ~Contains(r1, ErrorToken) =>
                /\ Len(out.issued) = 2
                /\ Len(relay) = 2
                /\ out.issued[2] = << "get", Space, "lastcaptured" >>
                /\ \A v \in { << "1/125" >>, << >> } :
                        relay[2] = RelayOk(ValueText(v)) =>
                            /\ out.raised = "none"
                            /\ out.result.tag = "str"
                            /\ out.result.val = v
                /\ relay[2] = RelayOk(ErrorText(NoSuchProperty)) =>
                        /\ out.raised = "none"
                        /\ out.result.tag = "None"
                        /\ out.logged = << LogError("get lastcaptured", NoSuchProperty) >>
            /\ (Contains(r1, ErrorToken) /\ Contains(r1, MessageMarker)) =>
                /\ Len(out.issued) = 1
                /\ out.raised = "none"
                /\ out.result.tag = "None"
                /\ out.logged = << LogError("capture", NoSuchProperty) >>

C9_Witness ==
    /\ op = "capture"
    /\ Len(out.issued) = 2
    /\ out.issued[2] = << "get", Space, "lastcaptured" >>
    /\ out.result.tag = "str"
    /\ out.result.val = << "1/125" >>

\* A well-formed protocol error: the error marker and a message.
ProtocolError(text) == Contains(text, ErrorToken) /\ Contains(text, MessageMarker)

\* None, an empty list or False
Absent(result) ==
    \/ result.tag = "None"
    \/ result.tag = "list" /\ result.val = << >>
    \/ result.tag = "bool" /\ result.val = FALSE

ParsingCalls ==
    {"get", "set", "list", "Transfer", "LastCaptured", "capture", "startRecording"}

\* C4: a call that parses relay text and is answered with a protocol error
\* logs it, hands back None / an empty list / False and raises nothing.
C4_ProtocolErrorNeverRaises ==
    (/\ op \in ParsingCalls
     /\ relay # << >>
     /\ relay[Len(relay)].kind = "ok"
     /\ ProtocolError(relay[Len(relay)].text)) =>
        /\ out.raised = "none"
        /\ out.logged # << >>
        /\ Absent(out.result)

\* C5: a call whose relay invocation fails (non-zero exit, or no spawn) logs the
\* failure, hands back None / an empty list / False and raises nothing.
C5_InvocationFailureNeverRaises ==
    (relay # << >> /\ relay[Len(relay)].kind \in {"exit", "spawn"}) =>
        /\ out.raised = "none"
        /\ \E i \in 1..Len(out.logged) : out.logged[i].site = "execute"
        /\ Absent(out.result)

\* The body of a relay answer: what follows `response:`, trimmed of quote,
\* semicolon and line-break characters (the whole trimmed answer when the
\* marker is missing).
ResponseBody(text) ==
    IF Contains(text, ResponseMarker)
    THEN Strip(Split(text, ResponseMarker)[2], ValueStripChars)
    ELSE Strip(text, ValueStripChars)

\* C6: startRecording issues exactly one command, chosen by inLiveViewMode, and
\* for every relay answer returns True iff the body is empty, and for a
\* non-empty body returns False and logs that body.
C6_StartRecording ==
    op = "startRecording" =>
        /\ out.issued = << IF preLive THEN << "do", Space, "LiveViewWnd_StartRecord" >>
                                      ELSE << "do", Space, "StartRecord" >> >>
        /\ relay[1].kind = "ok" =>
            LET body == ResponseBody(relay[1].text)
            IN  /\ out.raised = "none"
                /\ out.result.tag = "bool"
                /\ out.result.val = (body = << >>)
                /\ body # << >> => out.logged = << LogError("startRecording", body) >>

\* C7: list(P) answered with a bracketed list of n quoted elements returns
\* exactly those n elements, in the order of the answer, for every n from 0.
C7_ListElements ==
    \A n \in 0..MaxElems, reversed \in BOOLEAN :
        (op = "list" /\ relay = << RelayOk(ListText(Elems(n, reversed))) >>) =>
            /\ out.raised = "none"
            /\ out.result.tag = "list"
            /\ Len(out.result.val) = n
            /\ \A i \in 1..n : out.result.val[i] = << Elems(n, reversed)[i] >>

ToggleCalls == {"startLiveView", "stopLiveView", "liveView.enter", "liveView.exit"}

\* C8: inLiveViewMode is false after construction; startLiveView sets it and
\* issues the show command, then the minimize-all command; stopLiveView clears
\* it and issues the hide command; no other call changes it; and it is set
\* exactly when the last start/stop call was a start.
C8_LiveViewStateMachine ==
    /\ op = "__init__" => ~inLiveViewMode
    /\ op = "startLiveView" =>
            inLiveViewMode /\ out.issued = << ShowCommand, MinimizeCommand >>
    /\ op = "stopLiveView" => ~inLiveViewMode /\ out.issued = << HideCommand >>
    /\ op \notin ToggleCalls => inLiveViewMode = preLive
    /\ inLiveViewMode = (lastToggle = "start")

ActionCalls ==
    {"startLiveView", "stopLiveView", "liveView.enter", "liveView.exit", "focus",
     "capture", "startRecording", "stopRecording", "minimizeAll", "closeAll"}

\* C10 as stated: every command handed to the relay begins with get, set, list
\* or do, and every command of an action call other than capture's
\* last-captured query begins with do.
C10_FourVerbsOnly ==
    \A i \in 1..Len(out.issued) :
        /\ Head(out.issued[i]) \in ProtocolVerbs
        /\ (op \in ActionCalls /\ ~(op = "capture" /\ i = 2)) => Head(out.issued[i]) = "do"

CaptureVerbs == {"Capture", "CaptureNoAf", "capture"}

\* C10 amended: every command begins with get, set, list or do, except the
\* capture command of capture() outside live view, which is the bare word
\* Capture or CaptureNoAf, and singleLineCommand('capture'), which is the bare
\* word capture; every other command of an action call begins with do (the
\* last-captured query of capture() with get).
C10_VerbsWithBareCapture ==
    \A i \in 1..Len(out.issued) :
        LET verb == Head(out.issued[i])
            bare == \/ op = "capture" /\ ~preLive /\ i = 1
                    \/ op = "singleLineCommand" /\ arg = << "capture" >>
        IN  /\ out.issued[i] # << >>
            /\ IF bare THEN verb \in CaptureVerbs ELSE verb \in ProtocolVerbs
            /\ (op = "capture" /\ ~preLive /\ i = 1) =>
                    verb = IF AutoFocus THEN "Capture" ELSE "CaptureNoAf"
            /\ (op = "capture" /\ i = 2) => verb = "get"
            /\ (op \in ActionCalls /\ ~(op = "capture" /\ (i = 2 \/ ~preLive))) => verb = "do"

C10_Witness ==
    /\ op = "capture"
    /\ ~preLive
    /\ Len(out.issued) = 2
    /\ Head(out.issued[1]) = "Capture"
    /\ Head(out.issued[2]) = "get"

====
